---------------------------- MODULE Spec2Model ----------------------------
(***************************************************************************)
(* A model of the generic finite state machine of fsm.py (class FSM) and   *)
(* of the modulo-three automaton built on it in mod_three.py (class        *)
(* ModThreeFSM).                                                           *)
(*                                                                         *)
(* Python objects that are passed by reference (the sets and the dict the  *)
(* caller hands to FSM.__init__) live in two heaps, `sets` and `dicts`,    *)
(* indexed by object names; an FSM instance holds references into them.    *)
(* A dict is a sequence of <<key, value>> entries in insertion order, with *)
(* distinct keys, which is the order dict.items() iterates in.             *)
(*                                                                         *)
(* An exception is a record: its class (exc), which message it carries     *)
(* (tag) and the values formatted into the message.                        *)
(***************************************************************************)
EXTENDS Integers, Sequences, FiniteSets, TLC

VARIABLES
    sets,       \* heap of set objects: object name -> set of strings
    dicts,      \* heap of dict objects: object name -> sequence of entries
    config,     \* the five values the caller constructs the FSM from
    self,       \* the FSM instance: references, initial_state, current_state
    phase,      \* "new" (not constructed), "live", "failed" (__init__ raised)
    last,       \* the last call made, its argument and its outcome
    mutations,  \* how many times the caller mutated its own containers
    runs        \* two instances of one definition and their process calls

vars == <<sets, dicts, config, self, phase, last, mutations, runs>>

-----------------------------------------------------------------------------
(* Bounds of the model. *)

MaxEntries == 2     \* entries of a transition_map drawn for construction
MaxLen == 3         \* length of an input string given to FSM.process
MaxBits == 6        \* length of a string given to ModThreeFSM.get_remainder
MaxMutations == 1   \* caller-side mutations of the constructor's arguments

-----------------------------------------------------------------------------
(* Values. *)

None == "-"
NoSet == {}

\* state and symbol names configurations are drawn from
StateU == {"S0", "S1"}
SymU == {"a", "b"}
\* symbols a caller may feed to transition / process: "c" is in no alphabet
InputSyms == {"a", "b", "c"}

(* Exceptions.  inner is <<>> or <<e>>: the exception whose text the        *)
(* message embeds ("...: {e}").                                            *)
Exception(exc, tag, state, symbol, set, pos, inner) ==
    [exc |-> exc, tag |-> tag, state |-> state, symbol |-> symbol,
     set |-> set, pos |-> pos, inner |-> inner]

FSMError(tag, state, symbol, set) ==
    Exception("FSMError", tag, state, symbol, set, -1, <<>>)

(* The outcome of a call: raised is <<>> or <<exception>>, ret is <<>>      *)
(* (None) or <<value>>.                                                    *)
Return(v) == [raised |-> <<>>, ret |-> <<v>>]
ReturnNone == [raised |-> <<>>, ret |-> <<>>]
Raise(e) == [raised |-> <<e>>, ret |-> <<>>]

\* python: key in d
HasKey(d, key) == \E i \in 1..Len(d) : d[i][1] = key
\* python: d[key], for a key of d
Lookup(d, key) == d[CHOOSE i \in 1..Len(d) : d[i][1] = key][2]

-----------------------------------------------------------------------------
(* FSM._validate_fsm_configuration *)

\* variant: the target of an entry is not checked
validate_transition_map_no_target(items, states, alphabet) ==
    IF \E i \in 1..Len(items) : items[i][1][1] \notin states \/ items[i][1][2] \notin alphabet
        THEN LET i == CHOOSE k \in 1..Len(items) :
                        /\ items[k][1][1] \notin states \/ items[k][1][2] \notin alphabet
                        /\ \A j \in 1..(k - 1) : items[j][1][1] \in states /\ items[j][1][2] \in alphabet
             IN  IF items[i][1][1] \notin states
                    THEN <<FSMError("StateNotInStates", items[i][1][1], None, NoSet)>>
                    ELSE <<FSMError("SymbolNotInAlphabetOfMap", None, items[i][1][2], NoSet)>>
        ELSE <<>>

(* The loop over transition_map.items(): the first failing check of the    *)
(* first failing entry raises.                                             *)
RECURSIVE validate_transition_map(_, _, _)
validate_transition_map(items, states, alphabet) ==
    IF items = <<>> THEN <<>>
    ELSE LET state == items[1][1][1]
             symbol == items[1][1][2]
             next_state == items[1][2]
         IN  IF state \notin states
                THEN <<FSMError("StateNotInStates", state, None, NoSet)>>
             ELSE IF symbol \notin alphabet
                THEN <<FSMError("SymbolNotInAlphabetOfMap", None, symbol, NoSet)>>
             ELSE IF next_state \notin states
                THEN <<FSMError("NextStateNotInStates", next_state, None, NoSet)>>
             ELSE validate_transition_map(Tail(items), states, alphabet)

\* variant: the alphabet is checked before the states
validate_alphabet_first(states, alphabet, transition_map, initial_state, final_states) ==
    IF alphabet = {}
        THEN <<FSMError("AlphabetEmpty", None, None, NoSet)>>
    ELSE IF states = {}
        THEN <<FSMError("StatesEmpty", None, None, NoSet)>>
    ELSE IF initial_state \notin states
        THEN <<FSMError("InitialStateNotInStates", initial_state, None, NoSet)>>
    ELSE IF ~(final_states \subseteq states)
        THEN <<FSMError("FinalStatesNotSubset", None, None, NoSet)>>
    ELSE validate_transition_map(transition_map, states, alphabet)

\* <<>> when the configuration is valid, else <<the FSMError raised>>
_validate_fsm_configuration(states, alphabet, transition_map, initial_state, final_states) ==
    IF states = {}
        THEN <<FSMError("StatesEmpty", None, None, NoSet)>>
    ELSE IF alphabet = {}
        THEN <<FSMError("AlphabetEmpty", None, None, NoSet)>>
    ELSE IF initial_state \notin states
        THEN <<FSMError("InitialStateNotInStates", initial_state, None, NoSet)>>
    ELSE IF ~(final_states \subseteq states)
        THEN <<FSMError("FinalStatesNotSubset", None, None, NoSet)>>
    ELSE validate_transition_map(transition_map, states, alphabet)

-----------------------------------------------------------------------------
(* The instance.  self holds references; the operations of the class read  *)
(* the objects behind them.                                                *)

\* the names of the caller's containers
ArgRef == [states |-> "arg.states", alphabet |-> "arg.alphabet", transition_map |-> "arg.transition_map", final_states |-> "arg.final_states"]

NoSelf == [states |-> None, alphabet |-> None, transition_map |-> None, initial_state |-> None, final_states |-> None, current_state |-> None]

\* the instance s with its references followed in heaps hs (sets), hd (dicts)
Deref(s, hs, hd) ==
    [states |-> hs[s.states], alphabet |-> hs[s.alphabet],
     transition_map |-> hd[s.transition_map],
     initial_state |-> s.initial_state,
     final_states |-> hs[s.final_states],
     current_state |-> s.current_state]

Fsm == Deref(self, sets, dicts)

\* a call: the method, its argument (<<>> or <<x>>), current_state before it,
\* its outcome, and how many times it called FSM.transition
Call(op, arg, before, out, steps) ==
    [op |-> op, arg |-> arg, before |-> before, out |-> out, steps |-> steps, after |-> None]

NoCall == Call("none", <<>>, None, ReturnNone, 0)

\* a reset also notes the call it follows: "<method> ok" or "<method> raised"
Following(call) == call.op \o (IF call.out.raised = <<>> THEN " ok" ELSE " raised")

-----------------------------------------------------------------------------
(* FSM.__init__ *)

ModThreeFSMError(tag, set, inner) ==
    Exception("ModThreeFSMError", tag, None, None, set, -1, inner)

\* ModThreeFSM.__init__ catches the FSMError and raises its own; a direct
\* caller of FSM(...) sees the FSMError
OnError(op, e) ==
    IF op = "ModThreeFSM.__init__"
        THEN ModThreeFSMError("FailedToInitialize", NoSet, <<e>>)
        ELSE e

\* variant: the instance keeps the caller's object itself
copy_alias(ref, fresh) == ref

\* x.copy(): the object the instance keeps is a new one, named fresh
copy(ref, fresh) == fresh

\* the heap h once h[ref].copy() is kept under the name copy(ref, fresh)
Store(h, ref, fresh) ==
    LET r == copy(ref, fresh)
    IN  [o \in DOMAIN h \cup {r} |-> IF o = r THEN h[ref] ELSE h[o]]

\* the fields __init__ assigns once validation passed
NewSelf(initial_state) ==
    [states |-> copy(ArgRef.states, "self.states"),
     alphabet |-> copy(ArgRef.alphabet, "self.alphabet"),
     transition_map |-> copy(ArgRef.transition_map, "self.transition_map"),
     initial_state |-> initial_state,
     final_states |-> copy(ArgRef.final_states, "self.final_states"),
     current_state |-> initial_state]

\* FSM(states, alphabet, transition_map, initial_state, final_states) on the
\* caller's containers, called by op; an FSMError goes through OnError
Construct(op) ==
    /\ phase = "new"
    /\ LET err == _validate_fsm_configuration(
                      sets[ArgRef.states], sets[ArgRef.alphabet],
                      dicts[ArgRef.transition_map], config.initial_state,
                      sets[ArgRef.final_states])
       IN  IF err # <<>>
           THEN /\ phase' = "failed"
                /\ last' = Call(op, <<>>, None, Raise(OnError(op, err[1])), 0)
                /\ UNCHANGED <<sets, dicts, self>>
           ELSE /\ phase' = "live"
                /\ sets' = Store(Store(Store(sets,
                              ArgRef.states, "self.states"),
                              ArgRef.alphabet, "self.alphabet"),
                              ArgRef.final_states, "self.final_states")
                /\ dicts' = Store(dicts, ArgRef.transition_map, "self.transition_map")
                /\ self' = NewSelf(config.initial_state)
                /\ last' = Call(op, <<>>, None, ReturnNone, 0)
    /\ UNCHANGED <<config, mutations, runs>>

FSM__init__ == Construct("FSM.__init__")

-----------------------------------------------------------------------------
(* FSM.reset, FSM.transition, FSM.process, FSM.get_current_state, on a     *)
(* dereferenced instance m.  Each gives the instance after the call (fsm), *)
(* the outcome (out) and the number of FSM.transition calls made (steps).  *)

Result(m, out, steps) == [fsm |-> m, out |-> out, steps |-> steps]

\* variant: reset leaves an accepting state alone
reset_keep_final(m) ==
    IF m.current_state \in m.final_states THEN m
    ELSE [m EXCEPT !.current_state = m.initial_state]

reset(m) == [m EXCEPT !.current_state = m.initial_state]

\* variant: the transition is looked up before the alphabet is checked
transition_lookup_first(m, symbol) ==
    IF ~HasKey(m.transition_map, <<m.current_state, symbol>>)
        THEN Result(m, Raise(FSMError("NoTransitionDefined", m.current_state, symbol, NoSet)), 1)
    ELSE IF symbol \notin m.alphabet
        THEN Result(m, Raise(FSMError("SymbolNotInAlphabet", None, symbol, m.alphabet)), 1)
    ELSE Result([m EXCEPT !.current_state = Lookup(m.transition_map, <<m.current_state, symbol>>)], ReturnNone, 1)

\* variant: a missing transition moves to the initial state before raising
transition_clobber(m, symbol) ==
    IF symbol \notin m.alphabet
        THEN Result(m, Raise(FSMError("SymbolNotInAlphabet", None, symbol, m.alphabet)), 1)
    ELSE IF ~HasKey(m.transition_map, <<m.current_state, symbol>>)
        THEN Result(reset(m), Raise(FSMError("NoTransitionDefined", m.current_state, symbol, NoSet)), 1)
    ELSE Result([m EXCEPT !.current_state = Lookup(m.transition_map, <<m.current_state, symbol>>)], ReturnNone, 1)

\* variant: the state assigned is previous_state
transition_to_previous(m, symbol) ==
    IF symbol \notin m.alphabet
        THEN Result(m, Raise(FSMError("SymbolNotInAlphabet", None, symbol, m.alphabet)), 1)
    ELSE IF ~HasKey(m.transition_map, <<m.current_state, symbol>>)
        THEN Result(m, Raise(FSMError("NoTransitionDefined", m.current_state, symbol, NoSet)), 1)
    ELSE Result(m, ReturnNone, 1)

transition(m, symbol) ==
    IF symbol \notin m.alphabet
        THEN Result(m, Raise(FSMError("SymbolNotInAlphabet", None, symbol, m.alphabet)), 1)
    ELSE IF ~HasKey(m.transition_map, <<m.current_state, symbol>>)
        THEN Result(m, Raise(FSMError("NoTransitionDefined", m.current_state, symbol, NoSet)), 1)
    ELSE Result([m EXCEPT !.current_state = Lookup(m.transition_map, <<m.current_state, symbol>>)], ReturnNone, 1)

\* variant: positions are counted from one
ErrorAtPosition_one_based(i, symbol, e) ==
    Exception("FSMError", "ErrorAtPosition", None, symbol, NoSet, i + 1, <<e>>)

\* raise FSMError(f"Error at position {i} while processing '{symbol}': {e}")
ErrorAtPosition(i, symbol, e) ==
    Exception("FSMError", "ErrorAtPosition", None, symbol, NoSet, i, <<e>>)

\* variant: the loop goes on after a transition call has raised
RECURSIVE process_loop_swallow(_, _, _)
process_loop_swallow(m, symbols, i) ==
    IF symbols = <<>> THEN Result(m, ReturnNone, 0)
    ELSE LET t == transition(m, Head(symbols))
             r == process_loop_swallow(t.fsm, Tail(symbols), i + 1)
         IN  Result(r.fsm, r.out, r.steps + 1)

\* for i, symbol in enumerate(input_string), from index i on
RECURSIVE process_loop(_, _, _)
process_loop(m, symbols, i) ==
    IF symbols = <<>> THEN Result(m, ReturnNone, 0)
    ELSE LET t == transition(m, Head(symbols))
         IN  IF t.out.raised # <<>>
             THEN Result(t.fsm, Raise(ErrorAtPosition(i, Head(symbols), t.out.raised[1])), 1)
             ELSE LET r == process_loop(t.fsm, Tail(symbols), i + 1)
                  IN  Result(r.fsm, r.out, r.steps + 1)

\* variant: the state is checked against states, not final_states
accept_any_state(m, steps) ==
    IF m.current_state \notin m.states
        THEN Result(m, Raise(FSMError("Rejected", m.current_state, None, m.final_states)), steps)
        ELSE Result(m, Return(m.current_state), steps)

\* if self.current_state not in self.final_states: raise ...; return it
accept(m, steps) ==
    IF m.current_state \notin m.final_states
        THEN Result(m, Raise(FSMError("Rejected", m.current_state, None, m.final_states)), steps)
        ELSE Result(m, Return(m.current_state), steps)

\* variant: process does not reset first
process_no_reset(m, input_string) ==
    IF input_string = <<>> THEN accept(m, 0)
    ELSE LET r == process_loop(m, input_string, 0)
         IN  IF r.out.raised # <<>> THEN r ELSE accept(r.fsm, r.steps)

\* variant: a failed run puts the instance back in its initial state
process_reset_on_error(m, input_string) ==
    LET m0 == reset(m)
        r == IF input_string = <<>> THEN accept(m0, 0)
             ELSE LET l == process_loop(m0, input_string, 0)
                  IN  IF l.out.raised # <<>> THEN l ELSE accept(l.fsm, l.steps)
    IN  IF r.out.raised # <<>> THEN Result(m0, r.out, r.steps) ELSE r

\* variant: the empty input is answered before the reset
process_empty_before_reset(m, input_string) ==
    IF input_string = <<>> THEN accept(m, 0)
    ELSE LET r == process_loop(reset(m), input_string, 0)
         IN  IF r.out.raised # <<>> THEN r ELSE accept(r.fsm, r.steps)

process(m, input_string) ==
    LET m0 == reset(m)
    IN  IF input_string = <<>> THEN accept(m0, 0)
        ELSE LET r == process_loop(m0, input_string, 0)
             IN  IF r.out.raised # <<>> THEN r ELSE accept(r.fsm, r.steps)

get_current_state(m) == m.current_state

-----------------------------------------------------------------------------
(* Calls on the live instance. *)

StringsUpTo(chars, n) == UNION {[1..k -> chars] : k \in 0..n}

Inputs == StringsUpTo(InputSyms, MaxLen)

\* variant: the state reached is also stored as initial_state
Assign_initial_too(m) ==
    [self EXCEPT !.current_state = m.current_state, !.initial_state = m.current_state]

\* the instance keeps its references; only current_state is assigned
Assign(m) == [self EXCEPT !.current_state = m.current_state]

DoReset(op) ==
    /\ phase = "live"
    /\ self' = Assign(reset(Fsm))
    /\ last' = [Call(op, <<>>, self.current_state, ReturnNone, 0) EXCEPT !.after = Following(last)]
    /\ UNCHANGED <<sets, dicts, config, phase, mutations, runs>>

DoGetCurrentState(op) ==
    /\ phase = "live"
    /\ last' = Call(op, <<>>, self.current_state, Return(get_current_state(Fsm)), 0)
    /\ UNCHANGED <<sets, dicts, config, self, phase, mutations, runs>>

Reset == DoReset("reset")

GetCurrentState == DoGetCurrentState("get_current_state")

Transition ==
    /\ phase = "live"
    /\ \E symbol \in InputSyms :
         LET r == transition(Fsm, symbol)
         IN  /\ self' = Assign(r.fsm)
             /\ last' = Call("transition", <<symbol>>, self.current_state, r.out, r.steps)
    /\ UNCHANGED <<sets, dicts, config, phase, mutations, runs>>

Process ==
    /\ phase = "live"
    /\ \E input_string \in Inputs :
         LET r == process(Fsm, input_string)
         IN  /\ self' = Assign(r.fsm)
             /\ last' = Call("process", <<input_string>>, self.current_state, r.out, r.steps)
    /\ UNCHANGED <<sets, dicts, config, phase, mutations, runs>>

-----------------------------------------------------------------------------
(* The caller mutates, after construction, a container it passed in: it    *)
(* adds or discards an element of a set, or sets or deletes a dict entry.  *)

\* what the caller adds or discards: a declared name and an undeclared one
MutStates == {"S0", "S2"}
MutSyms == {"a", "c"}
MutKeys == {"S0", "S1"} \X {"a"}
MutTargets == {"S0", "S1"}

\* d[key] = value
DictSet(d, key, value) ==
    IF HasKey(d, key)
        THEN [i \in 1..Len(d) |-> IF d[i][1] = key THEN <<key, value>> ELSE d[i]]
        ELSE Append(d, <<key, value>>)

\* del d[key]
DictDel(d, key) == SelectSeq(d, LAMBDA e : e[1] # key)

\* s.discard(x) when x is in s, else s.add(x)
Toggle(s, x) == IF x \in s THEN s \ {x} ELSE s \cup {x}

CallerMutate ==
    /\ phase = "live"
    /\ mutations < MaxMutations
    /\ mutations' = mutations + 1
    /\ \/ \E x \in MutStates, o \in {ArgRef.states, ArgRef.final_states} :
            /\ sets' = [sets EXCEPT ![o] = Toggle(@, x)]
            /\ UNCHANGED dicts
       \/ \E x \in MutSyms :
            /\ sets' = [sets EXCEPT ![ArgRef.alphabet] = Toggle(@, x)]
            /\ UNCHANGED dicts
       \/ \E key \in MutKeys, value \in MutTargets :
            /\ dicts' = [dicts EXCEPT ![ArgRef.transition_map] = DictSet(@, key, value)]
            /\ UNCHANGED sets
       \/ \E i \in 1..Len(dicts[ArgRef.transition_map]) :
            /\ dicts' = [dicts EXCEPT ![ArgRef.transition_map] = DictDel(@, @[i][1])]
            /\ UNCHANGED sets
    /\ UNCHANGED <<config, self, phase, last, runs>>

-----------------------------------------------------------------------------
(* Configurations. *)

Config(states, alphabet, transition_map, initial_state, final_states) ==
    [states |-> states, alphabet |-> alphabet, transition_map |-> transition_map,
     initial_state |-> initial_state, final_states |-> final_states]

\* test_mod_three.py, TestFSM.setUp
TestSetUp ==
    Config({"S0", "S1"}, {"a", "b"},
           << <<<<"S0", "a">>, "S1">>, <<<<"S0", "b">>, "S0">>,
              <<<<"S1", "a">>, "S0">>, <<<<"S1", "b">>, "S1">> >>,
           "S0", {"S0", "S1"})

\* test_mod_three.py, test_fsm_invalid_transition: an incomplete map
TestIncomplete ==
    Config({"S0", "S1"}, {"a", "b"}, << <<<<"S0", "a">>, "S1">> >>, "S0", {"S0", "S1"})

\* test_mod_three.py, test_fsm_final_state_not_accepted: only S0 accepts
TestOnlyS0Final ==
    Config({"S0", "S1", "S2"}, {"a", "b"},
           << <<<<"S0", "a">>, "S1">>, <<<<"S0", "b">>, "S2">>,
              <<<<"S1", "a">>, "S0">>, <<<<"S1", "b">>, "S2">>,
              <<<<"S2", "a">>, "S2">>, <<<<"S2", "b">>, "S2">> >>,
           "S0", {"S0"})

\* an initial state that does not accept, and an incomplete map
StartNotFinal ==
    Config({"S0", "S1"}, {"a", "b"},
           << <<<<"S0", "a">>, "S1">>, <<<<"S1", "b">>, "S0">>, <<<<"S1", "a">>, "S1">> >>,
           "S0", {"S1"})

\* no accepting state at all
NoFinal ==
    Config({"S0", "S1"}, {"a"}, << <<<<"S0", "a">>, "S1">>, <<<<"S1", "a">>, "S0">> >>, "S1", {})

\* a transition to a state that is not declared: __init__ raises
UnknownTarget ==
    Config({"S0", "S1"}, {"a", "b"}, << <<<<"S0", "a">>, "S2">> >>, "S0", {"S0"})

EngineConfigs == {TestSetUp, TestIncomplete, TestOnlyS0Final, StartNotFinal, NoFinal, UnknownTarget}

\* every configuration over StateU and SymU whose transition_map has at most
\* MaxEntries entries
Entries == (StateU \X SymU) \X StateU

DictsUpTo(n) ==
    {d \in UNION {[1..k -> Entries] : k \in 0..n} :
        \A i, j \in 1..Len(d) : i # j => d[i][1] # d[j][1]}

AllConfigs ==
    [states : SUBSET StateU, alphabet : SUBSET SymU,
     transition_map : DictsUpTo(MaxEntries),
     initial_state : StateU, final_states : SUBSET StateU]

-----------------------------------------------------------------------------
(* Specifications of the engine. *)

\* no second instance is in play
NoRuns == <<>>

\* the caller holds the four containers of configuration c
InitWith(c) ==
    /\ config = c
    /\ sets = [o \in {ArgRef.states, ArgRef.alphabet, ArgRef.final_states} |->
                  IF o = ArgRef.states THEN c.states
                  ELSE IF o = ArgRef.alphabet THEN c.alphabet
                  ELSE c.final_states]
    /\ dicts = [o \in {ArgRef.transition_map} |-> c.transition_map]
    /\ self = NoSelf
    /\ phase = "new"
    /\ last = NoCall
    /\ mutations = 0
    /\ runs = NoRuns

\* an instance is constructed and then used
Init == \E c \in EngineConfigs : InitWith(c)

Next ==
    \/ FSM__init__
    \/ Reset
    \/ Transition
    \/ Process
    \/ GetCurrentState

Spec == Init /\ [][Next]_vars

\* an instance is constructed and used while the caller goes on mutating the
\* containers it constructed the instance from
CopyConfigs == {StartNotFinal}

InitCopy == \E c \in CopyConfigs : InitWith(c)

NextCopy ==
    \/ FSM__init__
    \/ CallerMutate
    \/ Transition
    \/ Process

SpecCopy == InitCopy /\ [][NextCopy]_vars

\* construction alone, from every bounded configuration
InitConstruct == \E c \in AllConfigs : InitWith(c)

NextConstruct == FSM__init__

SpecConstruct == InitConstruct /\ [][NextConstruct]_vars

-----------------------------------------------------------------------------
(* ModThreeFSM (mod_three.py).  Its _fsm is the instance `self` above; the *)
(* containers __init__ builds are the caller's containers of FSM(...).     *)

\* variant: the map has no entry for S2 with digit 1
ModThreeConfigIncomplete ==
    Config({"S0", "S1", "S2"}, {"0", "1"},
           << <<<<"S0", "0">>, "S0">>, <<<<"S0", "1">>, "S1">>,
              <<<<"S1", "0">>, "S2">>, <<<<"S1", "1">>, "S0">>,
              <<<<"S2", "0">>, "S1">> >>,
           "S0", {"S0", "S1", "S2"})

\* variant: only S0 is a final state
ModThreeConfigOnlyS0Final ==
    Config({"S0", "S1", "S2"}, {"0", "1"},
           << <<<<"S0", "0">>, "S0">>, <<<<"S0", "1">>, "S1">>,
              <<<<"S1", "0">>, "S2">>, <<<<"S1", "1">>, "S0">>,
              <<<<"S2", "0">>, "S1">>, <<<<"S2", "1">>, "S2">> >>,
           "S0", {"S0"})

\* variant: the entries of S1 are exchanged
ModThreeConfigSwapped ==
    Config({"S0", "S1", "S2"}, {"0", "1"},
           << <<<<"S0", "0">>, "S0">>, <<<<"S0", "1">>, "S1">>,
              <<<<"S1", "0">>, "S0">>, <<<<"S1", "1">>, "S2">>,
              <<<<"S2", "0">>, "S1">>, <<<<"S2", "1">>, "S2">> >>,
           "S0", {"S0", "S1", "S2"})

\* states, alphabet, transitions, initial_state, final_states of __init__
ModThreeConfig ==
    Config({"S0", "S1", "S2"}, {"0", "1"},
           << <<<<"S0", "0">>, "S0">>, <<<<"S0", "1">>, "S1">>,
              <<<<"S1", "0">>, "S2">>, <<<<"S1", "1">>, "S0">>,
              <<<<"S2", "0">>, "S1">>, <<<<"S2", "1">>, "S2">> >>,
           "S0", {"S0", "S1", "S2"})

\* variant: the remainders of S1 and S2 are exchanged
state_to_remainder_swapped == [s \in {"S0", "S1", "S2"} |-> CASE s = "S0" -> 0 [] s = "S1" -> 2 [] s = "S2" -> 1]

\* self._state_to_remainder
_state_to_remainder == [s \in {"S0", "S1", "S2"} |-> CASE s = "S0" -> 0 [] s = "S1" -> 1 [] s = "S2" -> 2]

ModThreeFSM__init__ == Construct("ModThreeFSM.__init__")

\* an argument of get_remainder: a str (its characters) or something else
Str(chars) == [isstr |-> TRUE, chars |-> chars]
NotAStr == [isstr |-> FALSE, chars |-> <<>>]

\* set(binary_string)
CharSet(chars) == {chars[i] : i \in 1..Len(chars)}

\* the rest of get_remainder, once the argument is known to be a non-empty
\* string of binary digits
run_and_map(m, chars) ==
    LET r == process(m, chars)
    IN  IF r.out.raised # <<>>
           THEN Result(r.fsm, Raise(ModThreeFSMError("ProcessingFailed", NoSet, r.out.raised)), r.steps)
        ELSE IF r.out.ret[1] \notin DOMAIN _state_to_remainder
           THEN Result(r.fsm, Raise(Exception("KeyError", "KeyError", r.out.ret[1], None, NoSet, -1, <<>>)), r.steps)
        ELSE Result(r.fsm, Return(_state_to_remainder[r.out.ret[1]]), r.steps)

\* variant: no isinstance test; iterating over the non-string raises the
\* builtin TypeError
get_remainder_no_isinstance(m, binary_string) ==
    IF ~binary_string.isstr
        THEN Result(m, Raise(Exception("TypeError", "NotIterable", None, None, NoSet, -1, <<>>)), 0)
    ELSE IF binary_string.chars = <<>>
        THEN Result(m, Return(0), 0)
    ELSE IF ~(\A i \in 1..Len(binary_string.chars) : binary_string.chars[i] \in {"0", "1"})
        THEN Result(m, Raise(ModThreeFSMError("InvalidCharacters", CharSet(binary_string.chars) \ {"0", "1"}, <<>>)), 0)
    ELSE run_and_map(m, binary_string.chars)

\* variant: the empty string is handed to the engine like any other
get_remainder_empty_to_engine(m, binary_string) ==
    IF ~binary_string.isstr
        THEN Result(m, Raise(ModThreeFSMError("InputMustBeString", NoSet, <<>>)), 0)
    ELSE IF ~(\A i \in 1..Len(binary_string.chars) : binary_string.chars[i] \in {"0", "1"})
        THEN Result(m, Raise(ModThreeFSMError("InvalidCharacters", CharSet(binary_string.chars) \ {"0", "1"}, <<>>)), 0)
    ELSE run_and_map(m, binary_string.chars)

\* variant: the message lists every character of the string
get_remainder_all_chars(m, binary_string) ==
    IF ~binary_string.isstr
        THEN Result(m, Raise(ModThreeFSMError("InputMustBeString", NoSet, <<>>)), 0)
    ELSE IF binary_string.chars = <<>>
        THEN Result(m, Return(0), 0)
    ELSE IF ~(\A i \in 1..Len(binary_string.chars) : binary_string.chars[i] \in {"0", "1"})
        THEN Result(m, Raise(ModThreeFSMError("InvalidCharacters", CharSet(binary_string.chars), <<>>)), 0)
    ELSE run_and_map(m, binary_string.chars)

\* get_remainder on the dereferenced _fsm m
get_remainder(m, binary_string) ==
    IF ~binary_string.isstr
        THEN Result(m, Raise(ModThreeFSMError("InputMustBeString", NoSet, <<>>)), 0)
    ELSE IF binary_string.chars = <<>>
        THEN Result(m, Return(0), 0)
    ELSE IF ~(\A i \in 1..Len(binary_string.chars) : binary_string.chars[i] \in {"0", "1"})
        THEN Result(m, Raise(ModThreeFSMError("InvalidCharacters", CharSet(binary_string.chars) \ {"0", "1"}, <<>>)), 0)
    ELSE run_and_map(m, binary_string.chars)

\* binary strings, short strings with other characters, and a non-string
ModChars == {"0", "1", "2", "x"}

ModInputs ==
    {Str(s) : s \in StringsUpTo({"0", "1"}, MaxBits) \cup StringsUpTo(ModChars, MaxLen)}
        \cup {NotAStr}

GetRemainder ==
    /\ phase = "live"
    /\ \E binary_string \in ModInputs :
         LET r == get_remainder(Fsm, binary_string)
         IN  /\ self' = Assign(r.fsm)
             /\ last' = Call("get_remainder", <<binary_string>>, self.current_state, r.out, r.steps)
    /\ UNCHANGED <<sets, dicts, config, phase, mutations, runs>>

ModThreeReset == DoReset("ModThreeFSM.reset")

ModThreeGetCurrentState == DoGetCurrentState("ModThreeFSM.get_current_state")

InitModThree == InitWith(ModThreeConfig)

NextModThree ==
    \/ ModThreeFSM__init__
    \/ GetRemainder
    \/ ModThreeReset
    \/ ModThreeGetCurrentState

SpecModThree == InitModThree /\ [][NextModThree]_vars

-----------------------------------------------------------------------------
(* What the claims refer to. *)

\* the instance a fresh FSM(...) call on configuration c gives
FreshOf(c) ==
    [states |-> c.states, alphabet |-> c.alphabet, transition_map |-> c.transition_map,
     initial_state |-> c.initial_state, final_states |-> c.final_states,
     current_state |-> c.initial_state]

\* the automaton of m read as a mathematical object: the state after the
\* first k symbols of input, when each of them has a transition
RECURSIVE StateAfter(_, _, _)
StateAfter(m, input, k) ==
    IF k = 0 THEN m.initial_state
    ELSE Lookup(m.transition_map, <<StateAfter(m, input, k - 1), input[k]>>)

RECURSIVE StepsOk(_, _, _)
StepsOk(m, input, k) ==
    \/ k = 0
    \/ /\ StepsOk(m, input, k - 1)
       /\ input[k] \in m.alphabet
       /\ HasKey(m.transition_map, <<StateAfter(m, input, k - 1), input[k]>>)

\* int(chars, 2), and 0 for the empty string
RECURSIVE IntegerValue(_)
IntegerValue(chars) ==
    IF chars = <<>> THEN 0
    ELSE 2 * IntegerValue(SubSeq(chars, 1, Len(chars) - 1))
            + (IF chars[Len(chars)] = "1" THEN 1 ELSE 0)

IsBinary(chars) == \A i \in 1..Len(chars) : chars[i] \in {"0", "1"}

\* the constraints on a configuration stated by the data model
ValidConfig(c) ==
    /\ c.states # {}
    /\ c.alphabet # {}
    /\ c.initial_state \in c.states
    /\ c.final_states \subseteq c.states
    /\ \A i \in 1..Len(c.transition_map) :
          /\ c.transition_map[i][1][1] \in c.states
          /\ c.transition_map[i][1][2] \in c.alphabet
          /\ c.transition_map[i][2] \in c.states

\* {v} when cond holds, else nothing
When(cond, v) == IF cond THEN {v} ELSE {}

\* the violated constraints of c, each with its place in the order of checks:
\* 1 to 4 for the four checks on the sets, then three per entry of the map
Violations(c) ==
    When(c.states = {}, <<1, "StatesEmpty">>)
    \cup When(c.alphabet = {}, <<2, "AlphabetEmpty">>)
    \cup When(c.initial_state \notin c.states, <<3, "InitialStateNotInStates">>)
    \cup When(~(c.final_states \subseteq c.states), <<4, "FinalStatesNotSubset">>)
    \cup UNION {When(c.transition_map[i][1][1] \notin c.states, <<3 * i + 2, "StateNotInStates">>)
                 \cup When(c.transition_map[i][1][2] \notin c.alphabet, <<3 * i + 3, "SymbolNotInAlphabetOfMap">>)
                 \cup When(c.transition_map[i][2] \notin c.states, <<3 * i + 4, "NextStateNotInStates">>)
                 : i \in 1..Len(c.transition_map)}

FirstViolation(c) == CHOOSE v \in Violations(c) : \A w \in Violations(c) : v[1] <= w[1]

-----------------------------------------------------------------------------
(* Two instances constructed from one definition, with FSM.process run on  *)
(* each one transition call at a time, so that the calls on the two        *)
(* instances interleave.  Of an instance only current_state ever changes   *)
(* after __init__, so an instance is the definition plus the cell that     *)
(* holds its current_state.  `runs` gives, per instance: that cell, where  *)
(* its process call stands (pc: "idle", "loop" or "done"), the argument,   *)
(* the index i of the for loop, the outcome, how many times the call has   *)
(* called reset and transition, and whether the other instance has         *)
(* written its own state while this call was in its loop (overlapped).     *)

MaxRunLen == 2      \* length of an input string of an interleaved process call

Instances == {"x", "y"}

OtherInstance(inst) == CHOOSE o \in Instances : o # inst

RunInputs == StringsUpTo(InputSyms, MaxRunLen)

InterleaveConfigs == {TestOnlyS0Final, StartNotFinal}

\* variant: current_state is an attribute of the class, one cell for all
current_state_cell_of_class(inst) == "x"

\* self.current_state = ...: the attribute is set on the instance
current_state_cell(inst) == inst

\* instance inst, dereferenced
Instance(inst) ==
    [FreshOf(config) EXCEPT !.current_state = runs.current_state[current_state_cell(inst)]]

\* the outcome of a call that has not ended: nothing raised, nothing returned
Pending == [raised |-> <<>>, ret |-> <<>>]

\* both instances right after FSM(...), no call made
Constructed(c) ==
    [current_state |-> [inst \in Instances |-> c.initial_state],
     pc |-> [inst \in Instances |-> "idle"],
     input_string |-> [inst \in Instances |-> <<>>],
     i |-> [inst \in Instances |-> 0],
     out |-> [inst \in Instances |-> Pending],
     resets |-> [inst \in Instances |-> 0],
     steps |-> [inst \in Instances |-> 0],
     overlapped |-> [inst \in Instances |-> FALSE]]

\* instance inst has written state m.current_state; its call stands at pc
Advance(inst, m, pc, i, out, resets, steps) ==
    [runs EXCEPT !.current_state[current_state_cell(inst)] = m.current_state,
                 !.pc[inst] = pc,
                 !.i[inst] = i,
                 !.out[inst] = out,
                 !.resets[inst] = resets,
                 !.steps[inst] = steps,
                 !.overlapped[OtherInstance(inst)] = @ \/ runs.pc[OtherInstance(inst)] = "loop"]

\* process is called: self.reset(), and the empty input is answered at once
RunBegin(inst) ==
    /\ runs.pc[inst] = "idle"
    /\ \E input_string \in RunInputs :
         LET m0 == reset(Instance(inst))
             r == accept(m0, 0)
         IN  runs' = IF input_string = <<>>
                     THEN [Advance(inst, m0, "done", 0, r.out, 1, 0) EXCEPT !.input_string[inst] = input_string]
                     ELSE [Advance(inst, m0, "loop", 0, Pending, 1, 0) EXCEPT !.input_string[inst] = input_string]
    /\ UNCHANGED <<sets, dicts, config, self, phase, last, mutations>>

\* one iteration of the for loop: self.transition(symbol), wrapped on error
RunStep(inst) ==
    /\ runs.pc[inst] = "loop"
    /\ runs.i[inst] < Len(runs.input_string[inst])
    /\ LET i == runs.i[inst]
           symbol == runs.input_string[inst][i + 1]
           r == process_loop(Instance(inst), <<symbol>>, i)
       IN  runs' = IF r.out.raised # <<>>
                   THEN Advance(inst, r.fsm, "done", i, r.out, runs.resets[inst], runs.steps[inst] + r.steps)
                   ELSE Advance(inst, r.fsm, "loop", i + 1, Pending, runs.resets[inst], runs.steps[inst] + r.steps)
    /\ UNCHANGED <<sets, dicts, config, self, phase, last, mutations>>

\* the loop is over: the final state is checked and returned
RunEnd(inst) ==
    /\ runs.pc[inst] = "loop"
    /\ runs.i[inst] = Len(runs.input_string[inst])
    /\ LET r == accept(Instance(inst), runs.steps[inst])
       IN  runs' = [runs EXCEPT !.pc[inst] = "done", !.out[inst] = r.out]
    /\ UNCHANGED <<sets, dicts, config, self, phase, last, mutations>>

\* the caller has the outcome; the instance keeps its current_state
RunReturn(inst) ==
    /\ runs.pc[inst] = "done"
    /\ runs' = [runs EXCEPT !.pc[inst] = "idle",
                            !.input_string[inst] = <<>>,
                            !.i[inst] = 0,
                            !.out[inst] = Pending,
                            !.resets[inst] = 0,
                            !.steps[inst] = 0,
                            !.overlapped[inst] = FALSE]
    /\ UNCHANGED <<sets, dicts, config, self, phase, last, mutations>>

\* the caller has constructed both instances from configuration c
InitTwo(c) ==
    /\ config = c
    /\ sets = [o \in {ArgRef.states, ArgRef.alphabet, ArgRef.final_states} |->
                  IF o = ArgRef.states THEN c.states
                  ELSE IF o = ArgRef.alphabet THEN c.alphabet
                  ELSE c.final_states]
    /\ dicts = [o \in {ArgRef.transition_map} |-> c.transition_map]
    /\ self = NoSelf
    /\ phase = "new"
    /\ last = NoCall
    /\ mutations = 0
    /\ runs = Constructed(c)

InitInterleave == \E c \in InterleaveConfigs : InitTwo(c)

RunOf(inst) == RunBegin(inst) \/ RunStep(inst) \/ RunEnd(inst) \/ RunReturn(inst)

NextInterleave == \E inst \in Instances : RunOf(inst)

SpecInterleave == InitInterleave /\ [][NextInterleave]_vars

\* the same with progress: a call that has begun is not abandoned, the
\* interpreter goes on executing the loop and the check after it
FairConfigs == {StartNotFinal}

InitFair == \E c \in FairConfigs : InitTwo(c)

SpecFair ==
    /\ InitFair
    /\ [][NextInterleave]_vars
    /\ \A inst \in Instances : WF_vars(RunStep(inst) \/ RunEnd(inst))

-----------------------------------------------------------------------------
(* The claims. *)

\* C1: get_remainder of a binary string (most significant digit first) returns
\* its integer value modulo 3, and 0 for the empty string, whatever calls were
\* made on the instance before.  Checked for strings of up to MaxBits digits.
C1_RemainderIsValueMod3 ==
    (last.op = "get_remainder" /\ last.arg[1].isstr /\ IsBinary(last.arg[1].chars))
        => last.out = Return(IntegerValue(last.arg[1].chars) % 3)

\* a string of MaxBits digits with remainder 2, on an instance that earlier
\* calls left in another state than the initial one
C1_Witness ==
    /\ last.op = "get_remainder"
    /\ last.arg[1].isstr /\ IsBinary(last.arg[1].chars)
    /\ Len(last.arg[1].chars) = MaxBits
    /\ last.before # "S0"
    /\ last.out = Return(2)

\* the state that denotes remainder r
StateDenoting(r) == CHOOSE s \in DOMAIN _state_to_remainder : _state_to_remainder[s] = r

DigitChar(d) == IF d = 0 THEN "0" ELSE "1"

\* C2: in the modulo-3 instance, for every remainder r and digit d the
\* transition map sends (state denoting r, d) to the state denoting
\* (2*r + d) mod 3, with S0, S1, S2 denoting 0, 1, 2.
C2_TransitionTable ==
    phase = "live" =>
        /\ _state_to_remainder = [s \in {"S0", "S1", "S2"} |-> IF s = "S0" THEN 0 ELSE IF s = "S1" THEN 1 ELSE 2]
        /\ \A r \in 0..2, d \in 0..1 :
              /\ HasKey(Fsm.transition_map, <<StateDenoting(r), DigitChar(d)>>)
              /\ Lookup(Fsm.transition_map, <<StateDenoting(r), DigitChar(d)>>)
                    = StateDenoting((2 * r + d) % 3)

\* the table has been used: a run ended in the state denoting 2
C2_Witness ==
    /\ phase = "live"
    /\ last.op = "get_remainder"
    /\ last.steps > 1
    /\ self.current_state = StateDenoting(2)

\* C3: whatever calls were made on the instance before, process(s) has the
\* outcome (the returned state, or the error) that process(s) has on a
\* freshly constructed instance of the same configuration.
C3_HistoryIndependence ==
    last.op = "process" =>
        /\ last.out = process(FreshOf(config), last.arg[1]).out
        /\ self.current_state = process(FreshOf(config), last.arg[1]).fsm.current_state

\* a run that returns, started on an instance that is not in its initial state
C3_Witness ==
    /\ last.op = "process"
    /\ last.before # config.initial_state
    /\ last.arg[1] # <<>>
    /\ last.out.ret # <<>>

\* C4: reset never fails and leaves current_state equal to the initial state,
\* also after a process call that returned or raised; a second reset changes
\* nothing.
C4_ResetRestores ==
    last.op = "reset" =>
        /\ last.out = ReturnNone
        /\ self.current_state = config.initial_state
        /\ get_current_state(Fsm) = config.initial_state
        /\ reset(Fsm) = Fsm

\* a reset after a run that raised and had left the initial state
C4_Witness ==
    /\ last.op = "reset"
    /\ last.after = "process raised"
    /\ last.before # config.initial_state
    /\ self.current_state = config.initial_state

\* C5: when every symbol of the input has a transition (or the input is
\* empty), process returns the terminal state, which is then current_state,
\* exactly when it is a final state; otherwise it raises the rejection error
\* naming that terminal state.
C5_AcceptDecision ==
    (last.op = "process" /\ StepsOk(Fsm, last.arg[1], Len(last.arg[1]))) =>
        LET terminal == StateAfter(Fsm, last.arg[1], Len(last.arg[1]))
        IN  /\ self.current_state = terminal
            /\ terminal \in Fsm.final_states => last.out = Return(terminal)
            /\ terminal \notin Fsm.final_states =>
                  last.out = Raise(FSMError("Rejected", terminal, None, Fsm.final_states))
            /\ last.out.ret # <<>> <=> terminal \in Fsm.final_states

\* a run over a non-empty input rejected in a state other than the initial one
C5_Witness ==
    /\ last.op = "process"
    /\ StepsOk(Fsm, last.arg[1], Len(last.arg[1]))
    /\ last.out.raised # <<>>
    /\ last.out.raised[1].tag = "Rejected"
    /\ last.out.raised[1].state = "S2"
    /\ self.current_state = "S2"

\* C6: FSM(...) succeeds exactly when states and alphabet are non-empty, the
\* initial state is in states, the final states are a subset of states and
\* every transition entry has its source and target in states and its symbol
\* in the alphabet; otherwise it raises FSMError.  In particular an entry
\* naming an undeclared state makes it raise, and a map that is not total is
\* accepted.
C6_ConstructIffValid ==
    last.op = "FSM.__init__" =>
        /\ phase = "live" <=> ValidConfig(config)
        /\ phase = "live" <=> last.out = ReturnNone
        /\ phase = "failed" <=> (last.out.raised # <<>> /\ last.out.raised[1].exc = "FSMError")
        /\ (\E i \in 1..Len(config.transition_map) :
                \/ config.transition_map[i][1][1] \notin config.states
                \/ config.transition_map[i][2] \notin config.states)
              => phase = "failed"

\* the only defect is the target of a transition
C6_Witness ==
    /\ last.op = "FSM.__init__"
    /\ phase = "failed"
    /\ Cardinality(Violations(config)) = 1
    /\ last.out.raised[1].tag = "NextStateNotInStates"

\* C7: when a configuration violates several constraints, FSM(...) raises for
\* the first in the order: states empty, alphabet empty, initial state,
\* final states, then entry by entry the source state, the symbol and the
\* target state; no instance is created.
C7_FirstViolationReported ==
    (last.op = "FSM.__init__" /\ ~ValidConfig(config)) =>
        /\ last.out.raised # <<>>
        /\ last.out.raised[1].tag = FirstViolation(config)[2]
        /\ phase = "failed"
        /\ self = NoSelf
        /\ DOMAIN sets = {ArgRef.states, ArgRef.alphabet, ArgRef.final_states}
        /\ DOMAIN dicts = {ArgRef.transition_map}

\* the symbol and the target of the second entry are both wrong, and the one
\* reported is the symbol
C7_Witness ==
    /\ last.op = "FSM.__init__"
    /\ Cardinality(Violations(config)) >= 2
    /\ last.out.raised # <<>>
    /\ last.out.raised[1].tag = "SymbolNotInAlphabetOfMap"
    /\ FirstViolation(config)[1] = 9

\* C8: once constructed, the instance starts in the initial state and the
\* outcome of every transition and process call is the one the configuration
\* given to FSM(...) determines, whatever the caller has since done to the
\* containers it passed in.
C8_CopiesIsolateInstance ==
    /\ last.op = "FSM.__init__" /\ phase = "live" => Fsm = FreshOf(config)
    /\ last.op = "process" =>
          /\ last.out = process(FreshOf(config), last.arg[1]).out
          /\ self.current_state = process(FreshOf(config), last.arg[1]).fsm.current_state
    /\ last.op = "transition" =>
          LET r == transition([FreshOf(config) EXCEPT !.current_state = last.before], last.arg[1])
          IN  last.out = r.out /\ self.current_state = r.fsm.current_state

\* the caller's alphabet or transition map is no longer what it passed in,
\* and a run on the instance returns
C8_Witness ==
    /\ mutations > 0
    /\ \/ sets[ArgRef.alphabet] # config.alphabet
       \/ dicts[ArgRef.transition_map] # config.transition_map
    /\ last.op = "process"
    /\ Len(last.arg[1]) > 1
    /\ last.out.ret # <<>>

\* C9: transition(symbol) with a symbol outside the alphabet raises the
\* not-in-alphabet error in every current state and leaves current_state
\* unchanged; it does so although (current_state, symbol) has no transition
\* either.
C9_InvalidSymbol ==
    (last.op = "transition" /\ last.arg[1] \notin Fsm.alphabet) =>
        /\ last.out = Raise(FSMError("SymbolNotInAlphabet", None, last.arg[1], Fsm.alphabet))
        /\ self.current_state = last.before

\* such a call, in a state reached by earlier transitions
C9_Witness ==
    /\ last.op = "transition"
    /\ last.arg[1] \notin Fsm.alphabet
    /\ ~HasKey(Fsm.transition_map, <<last.before, last.arg[1]>>)
    /\ last.before # config.initial_state
    /\ last.out.raised # <<>>

\* C10: transition(symbol) with a symbol of the alphabet for which
\* (current_state, symbol) has no entry raises the no-transition error and
\* leaves current_state unchanged.
C10_UndefinedTransition ==
    (/\ last.op = "transition"
     /\ last.arg[1] \in Fsm.alphabet
     /\ ~HasKey(Fsm.transition_map, <<last.before, last.arg[1]>>)) =>
        /\ last.out = Raise(FSMError("NoTransitionDefined", last.before, last.arg[1], NoSet))
        /\ self.current_state = last.before

\* such a call, in a state reached by earlier transitions
C10_Witness ==
    /\ last.op = "transition"
    /\ last.arg[1] \in Fsm.alphabet
    /\ last.before # config.initial_state
    /\ last.out.raised # <<>>
    /\ last.out.raised[1].tag = "NoTransitionDefined"

\* C11: transition(symbol) with a symbol of the alphabet and an entry for
\* (current_state, symbol) returns and sets current_state to the target of
\* that entry; get_current_state returns current_state and changes nothing.
C11_TransitionMovesToTarget ==
    /\ (/\ last.op = "transition"
        /\ last.arg[1] \in Fsm.alphabet
        /\ HasKey(Fsm.transition_map, <<last.before, last.arg[1]>>)) =>
           /\ last.out = ReturnNone
           /\ self.current_state = Lookup(config.transition_map, <<last.before, last.arg[1]>>)
    /\ last.op = "get_current_state" =>
           /\ last.out = Return(self.current_state)
           /\ self.current_state = last.before
    /\ last.op = "FSM.__init__" /\ phase = "live" => self.current_state = config.initial_state

\* a transition that moved the instance from a state other than the initial
\* one to yet another state
C11_Witness ==
    /\ last.op = "transition"
    /\ last.out = ReturnNone
    /\ last.before # config.initial_state
    /\ self.current_state # last.before
    /\ self.current_state # config.initial_state

\* the first symbol of input (an index from 1) that has no transition
FirstBad(m, input) == CHOOSE k \in 1..Len(input) : StepsOk(m, input, k - 1) /\ ~StepsOk(m, input, k)

\* what transition raises for symbol in state s
StepError(m, s, symbol) ==
    IF symbol \notin m.alphabet
        THEN FSMError("SymbolNotInAlphabet", None, symbol, m.alphabet)
        ELSE FSMError("NoTransitionDefined", s, symbol, NoSet)

\* C12: when a symbol of the input has no transition, process raises an
\* error that carries the zero-based index of the first such symbol, the
\* symbol, and the error transition raised for it; transition was called
\* for the symbols up to that one and for none after it.
C12_PositionOfFirstFailure ==
    (last.op = "process" /\ ~StepsOk(Fsm, last.arg[1], Len(last.arg[1]))) =>
        LET k == FirstBad(Fsm, last.arg[1])
            inner == StepError(Fsm, StateAfter(Fsm, last.arg[1], k - 1), last.arg[1][k])
        IN  /\ last.out = Raise(Exception("FSMError", "ErrorAtPosition", None, last.arg[1][k], NoSet, k - 1, <<inner>>))
            /\ last.steps = k

\* the second symbol fails although the third would fail too
C12_Witness ==
    /\ last.op = "process"
    /\ Len(last.arg[1]) = 3
    /\ last.out.raised # <<>>
    /\ last.out.raised[1].pos = 1
    /\ last.out.raised[1].inner[1].tag = "NoTransitionDefined"
    /\ last.arg[1][3] \notin Fsm.alphabet

\* C13: process of the empty input takes no transition: it resets, and the
\* terminal state is the initial state, returned when it is a final state,
\* whatever current_state was before the call.
C13_EmptyInput ==
    (last.op = "process" /\ last.arg[1] = <<>>) =>
        /\ last.steps = 0
        /\ self.current_state = config.initial_state
        /\ config.initial_state \in config.final_states => last.out = Return(config.initial_state)
        /\ config.initial_state \notin config.final_states =>
              last.out = Raise(FSMError("Rejected", config.initial_state, None, config.final_states))

\* the empty input accepted by an instance that was in another state
C13_Witness ==
    /\ last.op = "process"
    /\ last.arg[1] = <<>>
    /\ last.before # config.initial_state
    /\ last.out = Return(config.initial_state)

\* the kind of error an exception stands for in the error taxonomy, read off
\* the condition that raised it; an error at a position is of the kind of
\* the error it embeds
RECURSIVE KindOf(_)
KindOf(e) ==
    CASE e.tag = "ErrorAtPosition" -> KindOf(e.inner[1])
      [] e.tag = "SymbolNotInAlphabet" -> "InvalidSymbolError"
      [] e.tag = "NoTransitionDefined" -> "UndefinedTransitionError"
      [] e.tag = "Rejected" -> "RejectedError"
      [] e.tag = "InputMustBeString" -> "TypeError"
      [] e.tag = "InvalidCharacters" -> "InvalidCharacterError"
      [] e.tag = "FailedToInitialize" -> "InternalConfigError"
      [] e.tag = "ProcessingFailed" -> "ModThreeError"
      [] OTHER -> "ConfigError"

\* one exception of each kind, as the methods raise it
ErrorSamples ==
    {_validate_fsm_configuration({}, {}, <<>>, "S0", {})[1],
     transition(FreshOf(TestIncomplete), "c").out.raised[1],
     transition(FreshOf(TestIncomplete), "b").out.raised[1],
     process(FreshOf(StartNotFinal), <<>>).out.raised[1],
     get_remainder(FreshOf(ModThreeConfig), NotAStr).out.raised[1],
     get_remainder(FreshOf(ModThreeConfig), Str(<<"2">>)).out.raised[1],
     OnError("ModThreeFSM.__init__", _validate_fsm_configuration({}, {}, <<>>, "S0", {})[1])}

\* C14: every error kind is told apart by the class of the exception, not by
\* its message: an exception raised by a call has the class of another
\* exception only when both are of the same kind.  The code raises FSMError
\* for every kind of the engine, so this fails.
C14_KindsDistinctByClass ==
    last.out.raised # <<>> =>
        \A s \in ErrorSamples :
            s.exc = last.out.raised[1].exc => KindOf(s) = KindOf(last.out.raised[1])

\* C15: get_remainder of something that is not a string raises the
\* must-be-a-string error without calling the engine: no transition is made
\* and current_state stays what it was.
C15_NonStringRejected ==
    (last.op = "get_remainder" /\ ~last.arg[1].isstr) =>
        /\ last.out = Raise(ModThreeFSMError("InputMustBeString", NoSet, <<>>))
        /\ last.steps = 0
        /\ self.current_state = last.before

\* such a call on an instance that earlier calls left in S2
C15_Witness ==
    /\ last.op = "get_remainder"
    /\ ~last.arg[1].isstr
    /\ last.before = "S2"
    /\ last.out.raised # <<>>

\* C16: get_remainder("") returns 0 without calling the engine: no reset and
\* no transition is made, and current_state stays what earlier calls left it.
C16_EmptyStringIsZero ==
    (last.op = "get_remainder" /\ last.arg[1] = Str(<<>>)) =>
        /\ last.out = Return(0)
        /\ last.steps = 0
        /\ self.current_state = last.before

\* the empty string given to an instance that earlier calls left in S1
C16_Witness ==
    /\ last.op = "get_remainder"
    /\ last.arg[1] = Str(<<>>)
    /\ last.before = "S1"
    /\ self.current_state = "S1"
    /\ last.out = Return(0)

\* C17: get_remainder of a non-empty string with a character other than 0
\* and 1 raises the invalid-characters error listing exactly the distinct
\* offending characters, before the engine is called: current_state stays
\* what it was, also when valid digits precede the bad character.
C17_InvalidCharacters ==
    (/\ last.op = "get_remainder"
     /\ last.arg[1].isstr
     /\ last.arg[1].chars # <<>>
     /\ ~IsBinary(last.arg[1].chars)) =>
        /\ last.out = Raise(ModThreeFSMError("InvalidCharacters",
                                {last.arg[1].chars[i] : i \in 1..Len(last.arg[1].chars)} \ {"0", "1"},
                                <<>>))
        /\ last.steps = 0
        /\ self.current_state = last.before

\* "102" given to an instance that earlier calls left in S2
C17_Witness ==
    /\ last.op = "get_remainder"
    /\ last.arg[1] = Str(<<"1", "0", "2">>)
    /\ last.before = "S2"
    /\ last.out.raised # <<>>
    /\ last.out.raised[1].set = {"2"}

\* C18: process does not reset when it fails.  When the symbol at zero-based
\* index i has no transition, current_state is afterwards the state reached
\* from the initial state over the symbols before it (the initial state when
\* i = 0); when the run is rejected, current_state is the terminal state,
\* which is not a final state.
C18_StateAfterFailure ==
    (last.op = "process" /\ last.out.raised # <<>>) =>
        IF StepsOk(Fsm, last.arg[1], Len(last.arg[1]))
        THEN /\ self.current_state = StateAfter(Fsm, last.arg[1], Len(last.arg[1]))
             /\ self.current_state \notin Fsm.final_states
             /\ last.out.raised[1].tag = "Rejected"
        ELSE /\ self.current_state = StateAfter(Fsm, last.arg[1], FirstBad(Fsm, last.arg[1]) - 1)
             /\ last.out.raised[1].pos = FirstBad(Fsm, last.arg[1]) - 1

\* the third symbol fails and the instance is left where the first two led,
\* which is neither the initial state nor the state before the call
C18_Witness ==
    /\ last.op = "process"
    /\ last.out.raised # <<>>
    /\ last.out.raised[1].pos = 2
    /\ self.current_state # config.initial_state
    /\ self.current_state # last.before

\* C19: after any calls of reset, transition, process and
\* get_current_state, returning or raising, the states, alphabet,
\* transition map, initial state and final states of the instance are what
\* they were after construction; only current_state changes.
C19_DefinitionUnchanged ==
    phase = "live" =>
        /\ [Fsm EXCEPT !.current_state = config.initial_state] = FreshOf(config)
        /\ [self EXCEPT !.current_state = config.initial_state] = NewSelf(config.initial_state)

\* a run has raised half-way and left the instance away from the initial state
C19_Witness ==
    /\ phase = "live"
    /\ last.op = "process"
    /\ last.out.raised # <<>>
    /\ last.out.raised[1].tag = "ErrorAtPosition"
    /\ self.current_state # config.initial_state

\* C20: in the modulo-3 instance every state reached over digits 0 and 1 is
\* a final state, so get_remainder never fails on a rejected run.
C20_NoRejection ==
    phase = "live" =>
        /\ self.current_state \in Fsm.final_states
        /\ \A s \in StringsUpTo({"0", "1"}, MaxLen) :
              StepsOk(Fsm, s, Len(s)) /\ StateAfter(Fsm, s, Len(s)) \in Fsm.final_states
        /\ (last.op = "get_remainder" /\ last.out.raised # <<>>) =>
              /\ last.out.raised[1].tag \in {"InputMustBeString", "InvalidCharacters"}
              /\ last.out.raised[1].inner = <<>>

\* a run over MaxBits digits returned with the instance in S2
C20_Witness ==
    /\ phase = "live"
    /\ last.op = "get_remainder"
    /\ last.steps = MaxBits
    /\ last.out = Return(2)
    /\ self.current_state = "S2"

\* C21: when process calls on two instances constructed from one definition
\* interleave, one transition call at a time and in any order, each call
\* ends with the outcome, and leaves its instance in the state, that the
\* same call gives on an instance used alone.
C21_InterleavedAsAlone ==
    \A inst \in Instances :
        runs.pc[inst] = "done" =>
            /\ runs.out[inst] = process(FreshOf(config), runs.input_string[inst]).out
            /\ Instance(inst) = process(FreshOf(config), runs.input_string[inst]).fsm

\* a call of MaxRunLen symbols has returned a state although the other
\* instance moved to a different state while the call was in its loop
C21_Witness ==
    \E inst \in Instances :
        /\ runs.pc[inst] = "done"
        /\ runs.overlapped[inst]
        /\ runs.steps[inst] = MaxRunLen
        /\ runs.out[inst].ret # <<>>
        /\ runs.pc[OtherInstance(inst)] = "loop"
        /\ runs.i[OtherInstance(inst)] > 0
        /\ runs.current_state[OtherInstance(inst)] # runs.current_state[inst]

\* the counts of a process call on instance inst, while it runs and once it
\* has ended
RunCounts(inst) ==
    LET input == runs.input_string[inst]
        n == Len(input)
    IN  /\ runs.pc[inst] = "loop" =>
              /\ runs.resets[inst] = 1
              /\ runs.steps[inst] = runs.i[inst]
              /\ runs.i[inst] <= n
        /\ runs.pc[inst] = "done" =>
              /\ runs.resets[inst] = 1
              /\ runs.steps[inst] <= n
              /\ runs.steps[inst] = IF StepsOk(FreshOf(config), input, n) THEN n
                                    ELSE FirstBad(FreshOf(config), input)
              /\ runs.out[inst] # Pending

\* C22: a process call on an input of length n always ends, returning or
\* raising.  It calls reset once and then transition at most n times:
\* n times when no transition call raises, and otherwise up to and including
\* the first call that raises.
C22_RunCompletes ==
    /\ [](\A inst \in Instances : RunCounts(inst))
    /\ \A inst \in Instances : (runs.pc[inst] = "loop") ~> (runs.pc[inst] = "done")

\* a call on MaxRunLen symbols has ended at its first transition call, which
\* raised
C22_Witness ==
    \E inst \in Instances :
        /\ runs.pc[inst] = "done"
        /\ Len(runs.input_string[inst]) = MaxRunLen
        /\ runs.steps[inst] = 1
        /\ runs.resets[inst] = 1
        /\ runs.out[inst].raised # <<>>

\* C23: of an instance that __init__ constructed, current_state is one of
\* states after construction and after every call of reset, transition,
\* process and get_current_state, whether the call returned or raised.
C23_CurrentStateInStates ==
    phase = "live" =>
        /\ self.current_state \in Fsm.states
        /\ Fsm.states = config.states

\* a process call raised half-way and left the instance in a state that is
\* neither the initial state nor a final state
C23_Witness ==
    /\ phase = "live"
    /\ last.op = "process"
    /\ last.out.raised # <<>>
    /\ last.steps > 1
    /\ self.current_state # config.initial_state
    /\ self.current_state \notin Fsm.final_states

\* C24: the configuration ModThreeFSM builds passes the validation of
\* FSM.__init__ and its transition map has an entry for each of S0, S1, S2
\* with each of the digits 0 and 1; hence get_remainder of a non-empty string
\* of digits 0 and 1 raises nothing, takes one transition per digit, and
\* returns the number in {0, 1, 2} that _state_to_remainder gives for the
\* state get_current_state reports after the call.
C24_BinaryInputNeverFails ==
    /\ last.op = "ModThreeFSM.__init__" => (phase = "live" /\ last.out = ReturnNone)
    /\ phase = "live" =>
          /\ _validate_fsm_configuration(Fsm.states, Fsm.alphabet, Fsm.transition_map,
                                         Fsm.initial_state, Fsm.final_states) = <<>>
          /\ Fsm.states = {"S0", "S1", "S2"}
          /\ \A s \in {"S0", "S1", "S2"}, d \in {"0", "1"} :
                /\ HasKey(Fsm.transition_map, <<s, d>>)
                /\ Lookup(Fsm.transition_map, <<s, d>>) \in {"S0", "S1", "S2"}
    /\ (/\ last.op = "get_remainder"
        /\ last.arg[1].isstr
        /\ last.arg[1].chars # <<>>
        /\ IsBinary(last.arg[1].chars)) =>
          /\ last.out.raised = <<>>
          /\ last.out.ret # <<>>
          /\ last.out.ret[1] \in 0..2
          /\ last.out.ret[1] = _state_to_remainder[get_current_state(Fsm)]
          /\ last.steps = Len(last.arg[1].chars)

\* a string of MaxBits digits was given to an instance left in S2 by an
\* earlier call; the call returned 1 and the instance is in S1
C24_Witness ==
    /\ last.op = "get_remainder"
    /\ last.arg[1].isstr
    /\ IsBinary(last.arg[1].chars)
    /\ Len(last.arg[1].chars) = MaxBits
    /\ last.before = "S2"
    /\ last.out = Return(1)
    /\ get_current_state(Fsm) = "S1"


=============================================================================
